---- MODULE Spec2Model ----
(***************************************************************************)
(* Model of the podcast generation pipeline of podcast_creator/nodes.py:   *)
(* generate_outline_node, generate_transcript_node,                        *)
(* generate_all_audio_node / generate_single_audio_clip and                *)
(* combine_audio_node, over the shared PodcastState record.                *)
(***************************************************************************)
EXTENDS Integers, Sequences, FiniteSets, TLC

(***************************************************************************)
(* Bounds of the model (not program constants).                            *)
(***************************************************************************)
MaxSegments == 2
MaxTurns == 2
MaxLines == 3
MaxBatch == 2

(***************************************************************************)
(* Program constants.                                                      *)
(***************************************************************************)
OutlineAttempts == 3
TranscriptAttempts == 3
AudioAttempts == 5
PadWidth == 4

(* the attempt whose failure raises: "if attempt == 2", "if attempt == 4"  *)
OutlineLastAttempt_Early == OutlineAttempts - 2
OutlineLastAttempt == 2
TranscriptLastAttempt_Late == TranscriptAttempts
TranscriptLastAttempt == 2
AudioLastAttempt_Late == AudioAttempts
AudioLastAttempt == 4

None == "None"

(***************************************************************************)
(* Generic helpers.                                                        *)
(***************************************************************************)
Min(a, b) == IF a < b THEN a ELSE b

SeqsUpTo(S, n) == UNION {[1..k -> S] : k \in 0..n}

RECURSIVE Flatten(_)
Flatten(ss) == IF ss = <<>> THEN <<>> ELSE Head(ss) \o Flatten(Tail(ss))

(***************************************************************************)
(* Configured vocabularies: the speaker names of the active                *)
(* SpeakerProfile, the names of the EmotionConfig and of the SpeedConfig.  *)
(***************************************************************************)
speaker_names == {"Host", "Guest"}
emotions_names == {"Neutral", "Happy"}
speed_names == {"slow", "normal", "fast"}

(***************************************************************************)
(* Dialogue records a language model may emit for a segment: two that use  *)
(* only configured names (the second without emotion and speed tag) and    *)
(* one each with an unknown speaker, emotion and speed name.               *)
(***************************************************************************)
Dialogue(sp, txt, em, spd) ==
    [speaker |-> sp, dialogue |-> txt, emotion |-> em, speed |-> spd]

ValidDialogues ==
    { Dialogue("Host", "t1", "Happy", "fast"),
      Dialogue("Guest", "t2", None, None) }

InvalidDialogues ==
    { Dialogue("Stranger", "t3", None, None),
      Dialogue("Host", "t4", "Furious", None),
      Dialogue("Guest", "t5", None, "warp") }

DialogueSamples == ValidDialogues \cup InvalidDialogues

(* A model response: ok = FALSE stands for a call that raised or whose     *)
(* text does not parse into the expected structure at all.                 *)
Unparsable == [ok |-> FALSE, lines |-> <<>>]

(* Responses drawn for a segment: the unparsable one, every sequence of    *)
(* valid dialogues, and every sequence with one invalid dialogue among     *)
(* copies of a valid one.                                                  *)
OneInvalid(n) ==
    {[k \in 1..n |-> IF k = pos THEN bad ELSE Dialogue("Host", "t1", "Happy", "fast")] :
        pos \in 1..n, bad \in InvalidDialogues}

TranscriptResponses ==
    {Unparsable}
    \cup {[ok |-> TRUE, lines |-> l] : l \in SeqsUpTo(ValidDialogues, MaxTurns)}
    \cup {[ok |-> TRUE, lines |-> l] : l \in UNION {OneInvalid(n) : n \in 1..MaxTurns}}

SegmentSizes == {"short", "medium", "long"}

OutlineUnparsable == [ok |-> FALSE, segments |-> <<>>]

SizeOf(r) == IF r % 3 = 0 THEN "short" ELSE IF r % 3 = 1 THEN "medium" ELSE "long"

(* Outlines drawn for the model's answer: every length up to MaxSegments,  *)
(* the sizes cycling through the three classes from each starting class.   *)
OutlineSamples ==
    {[k \in 1..n |-> [size |-> SizeOf(k + r)]] : n \in 0..MaxSegments, r \in 0..2}

OutlineResponses ==
    {OutlineUnparsable} \cup {[ok |-> TRUE, segments |-> s] : s \in OutlineSamples}

(***************************************************************************)
(* Validated Script Parser (core.create_validated_transcript_parser).      *)
(***************************************************************************)
DialogueValid(d) ==
    /\ d.speaker \in speaker_names
    /\ d.emotion = None \/ d.emotion \in emotions_names
    /\ d.speed = None \/ d.speed \in speed_names

ParserAccepts(resp) ==
    /\ resp.ok
    /\ \A k \in 1..Len(resp.lines) : DialogueValid(resp.lines[k])

(* outline_parser.invoke: succeeds exactly on structured output.           *)
OutlineParses(resp) == resp.ok

(***************************************************************************)
(* State.                                                                  *)
(*   pc                  position of the pipeline driver (the node that    *)
(*                       runs, or the error that ended the run)            *)
(*   state               PodcastState (state.py): content,                 *)
(*                       speaker_profile, outline, transcript, audio_clips,*)
(*                       final_output_file_path                            *)
(*   attempt_outline     nodes.py:203, loop variable attempt               *)
(*   attempt_transcript  nodes.py:326, loop variable attempt               *)
(*   seg_i, transcript   nodes.py:285-286, i and the local transcript      *)
(*   outline_response, response   the last model response (205, 328)       *)
(*   outline_calls, outline_fails calls issued at 205, failures at 209     *)
(*   call_seg, calls     segment of the last call at 328 and the number of *)
(*                       calls issued for that segment                     *)
(*   turns               nodes.py:294, the turns computed for that segment *)
(*   accepted            the results extended at 332, with their segment   *)
(*   batch_size          nodes.py:366, int(TTS_BATCH_SIZE)                 *)
(*   batch_start, batch_end, all_clip_paths   nodes.py:386-390             *)
(*   task                the generate_single_audio_clip task of each line: *)
(*                       calling (agenerate_speech in flight), sleeping    *)
(*                       (asyncio.sleep(3)), done (returned), failed       *)
(*                       (raised), with its loop variable attempt          *)
(*   disk                the files of {output_dir}/clips                   *)
(*   batches, pauses     the batches started at 389-416 and the sleeps at  *)
(*                       423                                               *)
(*   combined            the clips concatenated by combine_audio_files     *)
(*   idx_a, idx_b, name_a, name_b   two line indices and their file names  *)
(*   speakers, profile   the speakers given to SpeakerProfile(...) and the *)
(*                       validated Speaker objects (speakers.py)           *)
(*   backend, dialect, custom_voice   of one generate_single_audio_clip:   *)
(*                       the synthesis backend that serves the request,    *)
(*                       dialogue_info["dialect"], and what the speaker's  *)
(*                       custom_voice names                                *)
(*   emotion, speed      dialogue.emotion and dialogue.speed of that line  *)
(*   tts_kwargs          nodes.py:455-498                                  *)
(*   clip_attempt, clip_calls   loop variable at 502 and the               *)
(*                       agenerate_speech calls issued at 504              *)
(*   warned, variant     whether the backend logged a dialect warning, and *)
(*                       the language variant of the clip it produced      *)
(*   instances           TTSFactory._instances (llm/tts.py:278): for each  *)
(*                       model name the cached object, 0 when absent       *)
(*   created, loads      per model name, the wrapper objects constructed   *)
(*                       and the load_model() calls made                   *)
(*   tts, provider       the global tts of llm/service.py and              *)
(*                       config.TTS_PROVIDER                               *)
(*   got, requests       what the last get_tts call returned, and the      *)
(*                       number of get_tts and load_tts calls so far       *)
(*   content             the local content of content_transform_node      *)
(*                       (nodes.py:36), the input it works on              *)
(*   item_i, processed_items   nodes.py:119-120, position of the loop over *)
(*                       the content items and the items processed         *)
(*   model_calls         the qa_model.ainvoke calls issued by              *)
(*                       content_transform_node, with the item, the kind   *)
(*                       of call and the text of the answer                *)
(***************************************************************************)
VARIABLES pc, state,
          attempt_outline, attempt_transcript, seg_i, transcript,
          outline_response, response, outline_calls, outline_fails,
          call_seg, calls, turns, accepted,
          batch_size, batch_start, batch_end, task, all_clip_paths, disk,
          batches, pauses, combined,
          idx_a, idx_b, name_a, name_b,
          speakers, profile,
          backend, dialect, custom_voice, emotion, speed, tts_kwargs, clip_attempt,
          clip_calls,
          warned, variant,
          instances, created, loads, tts, provider, got, requests,
          content, item_i, processed_items, model_calls

scriptVars == <<attempt_outline, attempt_transcript, seg_i, transcript,
                outline_response, response, outline_calls, outline_fails,
                call_seg, calls, turns, accepted>>
audioVars == <<batch_size, batch_start, batch_end, task, all_clip_paths, disk,
               batches, pauses, combined>>
nameVars == <<idx_a, idx_b, name_a, name_b>>
speakerVars == <<speakers, profile>>
clipVars == <<backend, dialect, custom_voice, emotion, speed, tts_kwargs, clip_attempt, clip_calls,
              warned, variant>>
cacheVars == <<instances, created, loads, tts, provider, got, requests>>
contentVars == <<content, item_i, processed_items, model_calls>>
unitVars == <<nameVars, speakerVars, clipVars, cacheVars, contentVars>>
vars == <<pc, state, scriptVars, audioVars, unitVars>>

NoOutline == [some |-> FALSE, segments |-> <<>>]
NoFinal == [some |-> FALSE, clips |-> <<>>]

(* state["speaker_profile"]: None or the SpeakerProfile of the run         *)
Profile == "SpeakerProfile"

(* state["content"]: a str (is_list = FALSE, one item) or a list of items  *)
NoContent == [is_list |-> FALSE, items |-> <<>>]

EmptyState ==
    [content |-> NoContent, speaker_profile |-> Profile, outline |-> NoOutline, transcript |-> <<>>, audio_clips |-> <<>>,
     final_output_file_path |-> NoFinal]

(***************************************************************************)
(* generate_outline_node: for attempt in range(3), one model call and one  *)
(* parse per attempt; the first parse that succeeds is returned, the       *)
(* failure of attempt 2 raises RuntimeError.                               *)
(***************************************************************************)
OutlineTrySucceeds(resp) == OutlineParses(resp)

OutlineAttemptOk ==
    /\ pc = "generate_outline"
    /\ attempt_outline < OutlineAttempts
    /\ \E resp \in OutlineResponses :
          /\ OutlineTrySucceeds(resp)
          /\ outline_response' = resp
          /\ state' = [state EXCEPT !.outline = [some |-> TRUE, segments |-> resp.segments]]
    /\ outline_calls' = outline_calls + 1
    /\ pc' = "generate_transcript"
    /\ UNCHANGED <<attempt_outline, attempt_transcript, seg_i, transcript, response,
                   outline_fails, call_seg, calls, turns, accepted, audioVars,
                   unitVars>>

OutlineAttemptFail ==
    /\ pc = "generate_outline"
    /\ attempt_outline < OutlineAttempts
    /\ \E resp \in OutlineResponses :
          /\ ~OutlineTrySucceeds(resp)
          /\ outline_response' = resp
    /\ outline_calls' = outline_calls + 1
    /\ outline_fails' = outline_fails + 1
    /\ IF attempt_outline = OutlineLastAttempt
          THEN pc' = "raised_outline" /\ attempt_outline' = attempt_outline
          ELSE pc' = pc /\ attempt_outline' = attempt_outline + 1
    /\ UNCHANGED <<state, attempt_transcript, seg_i, transcript, response, call_seg,
                   calls, turns, accepted, audioVars, unitVars>>

(***************************************************************************)
(* generate_transcript_node: for each outline segment, for attempt in      *)
(* range(3): model call, validated parse, transcript.extend on success;    *)
(* after the last segment the node returns {"transcript": transcript}.     *)
(***************************************************************************)
Segments == state.outline.segments

Turns_MediumAsLong(segment) == IF segment.size = "short" THEN 2 ELSE 8
Turns(segment) ==
    IF segment.size = "short" THEN 2 ELSE IF segment.size = "medium" THEN 5 ELSE 8

TranscriptTrySucceeds_Unvalidated(resp) == resp.ok
TranscriptTrySucceeds(resp) == ParserAccepts(resp)

Extend_Prepend(tr, lines) == lines \o tr
Extend(tr, lines) == tr \o lines

TranscriptAfterFailure_KeepsValid(tr, resp) == tr \o SelectSeq(resp.lines, DialogueValid)
TranscriptAfterFailure(tr, resp) == tr

NextSegment(i) == i + 1

(* number of model calls issued for segment i, this one included          *)
CallsAfter(i) == IF call_seg = i THEN calls + 1 ELSE 1

TranscriptAttemptOk ==
    /\ pc = "generate_transcript"
    /\ state.speaker_profile # None
    /\ seg_i < Len(Segments)
    /\ attempt_transcript < TranscriptAttempts
    /\ turns' = Turns(Segments[seg_i + 1])
    /\ \E resp \in TranscriptResponses :
          /\ TranscriptTrySucceeds(resp)
          /\ response' = resp
          /\ transcript' = Extend(transcript, resp.lines)
          /\ accepted' = Append(accepted, [seg |-> seg_i, lines |-> resp.lines])
    /\ calls' = CallsAfter(seg_i)
    /\ call_seg' = seg_i
    /\ seg_i' = NextSegment(seg_i)
    /\ attempt_transcript' = 0
    /\ IF seg_i' >= Len(Segments)
          THEN /\ state' = [state EXCEPT !.transcript = transcript']
               /\ pc' = "generate_all_audio"
          ELSE UNCHANGED <<pc, state>>
    /\ UNCHANGED <<attempt_outline, outline_response, outline_calls, outline_fails,
                   audioVars, unitVars>>

TranscriptAttemptFail_ReturnsPartial ==
    /\ pc = "generate_transcript"
    /\ state.speaker_profile # None
    /\ seg_i < Len(Segments)
    /\ attempt_transcript < TranscriptAttempts
    /\ turns' = Turns(Segments[seg_i + 1])
    /\ \E resp \in TranscriptResponses :
          /\ ~TranscriptTrySucceeds(resp)
          /\ response' = resp
          /\ transcript' = TranscriptAfterFailure(transcript, resp)
    /\ calls' = CallsAfter(seg_i)
    /\ call_seg' = seg_i
    /\ IF attempt_transcript = TranscriptLastAttempt
          THEN /\ pc' = "raised_transcript"
               /\ attempt_transcript' = attempt_transcript
               /\ state' = [state EXCEPT !.transcript = transcript']
          ELSE pc' = pc /\ attempt_transcript' = attempt_transcript + 1 /\ state' = state
    /\ UNCHANGED <<seg_i, accepted, attempt_outline, outline_response,
                   outline_calls, outline_fails, audioVars, unitVars>>

TranscriptAttemptFail ==
    /\ pc = "generate_transcript"
    /\ state.speaker_profile # None
    /\ seg_i < Len(Segments)
    /\ attempt_transcript < TranscriptAttempts
    /\ turns' = Turns(Segments[seg_i + 1])
    /\ \E resp \in TranscriptResponses :
          /\ ~TranscriptTrySucceeds(resp)
          /\ response' = resp
          /\ transcript' = TranscriptAfterFailure(transcript, resp)
    /\ calls' = CallsAfter(seg_i)
    /\ call_seg' = seg_i
    /\ IF attempt_transcript = TranscriptLastAttempt
          THEN pc' = "raised_transcript" /\ attempt_transcript' = attempt_transcript
          ELSE pc' = pc /\ attempt_transcript' = attempt_transcript + 1
    /\ UNCHANGED <<state, seg_i, accepted, attempt_outline, outline_response,
                   outline_calls, outline_fails, audioVars, unitVars>>

(* An outline without segments: the loop body never runs.                  *)
TranscriptEmptyOutline ==
    /\ pc = "generate_transcript"
    /\ state.speaker_profile # None
    /\ Len(Segments) = 0
    /\ state' = [state EXCEPT !.transcript = transcript]
    /\ pc' = "generate_all_audio"
    /\ UNCHANGED <<scriptVars, audioVars, unitVars>>

(* assert state.get("speaker_profile") is not None: AssertionError before  *)
(* the transcript model is created.                                        *)
TranscriptAssertion ==
    /\ pc = "generate_transcript"
    /\ state.speaker_profile = None
    /\ pc' = "raised_assertion"
    /\ UNCHANGED <<state, scriptVars, audioVars, unitVars>>

(***************************************************************************)
(* Clip file names: f"{index:04d}.mp3", as sequences of character codes,   *)
(* and the order in which a lexical sort of strings puts them.             *)
(***************************************************************************)
RECURSIVE Digits(_)
Digits(n) == IF n < 10 THEN <<48 + n>> ELSE Digits(n \div 10) \o <<48 + (n % 10)>>

ZeroPad(s, w) == IF Len(s) >= w THEN s ELSE [k \in 1..(w - Len(s)) |-> 48] \o s

DotMp3 == <<46, 109, 112, 51>>

ClipFilename(index) == ZeroPad(Digits(index), PadWidth) \o DotMp3

RECURSIVE LexLess(_, _)
LexLess(a, b) ==
    IF a = <<>> THEN b # <<>>
    ELSE IF b = <<>> THEN FALSE
    ELSE IF Head(a) < Head(b) THEN TRUE
    ELSE IF Head(a) > Head(b) THEN FALSE
    ELSE LexLess(Tail(a), Tail(b))

RECURSIVE SortedNames(_)
SortedNames(S) ==
    IF S = {} THEN <<>>
    ELSE LET first == CHOOSE x \in S : \A y \in S \ {x} : LexLess(x, y)
         IN <<first>> \o SortedNames(S \ {first})

(***************************************************************************)
(* generate_all_audio_node and its generate_single_audio_clip tasks.       *)
(***************************************************************************)
Lines == 0..(MaxLines - 1)
ClipNames == {ClipFilename(i) : i \in Lines}
BatchSizes == (-1)..MaxBatch

total_segments == Len(state.transcript)

NoTask == [status |-> "none", attempt |-> 0]

(* The clips directory when the run starts: clips_dir.mkdir(exist_ok=True) *)
(* keeps what is there, and the caller reuses output/<episode_name> for an *)
(* episode that exists. An earlier run of m lines left the clips 0..m-1;   *)
(* the directory is new (m = 0) or holds the clips of a run of MaxLines    *)
(* lines.                                                                  *)
EarlierLine == Dialogue("Host", "t0", None, None)

EarlierRuns == {0, MaxLines}

EarlierDisk(m) ==
    [n \in ClipNames |->
        IF \E i \in 0..(m - 1) : n = ClipFilename(i) THEN <<EarlierLine>> ELSE <<>>]

BatchEnd_DropsLast(start) == Min(start + batch_size, total_segments - 1)
BatchEnd(start) == Min(start + batch_size, total_segments)

NextBatchStart(start) == start + batch_size

(* range(0, total_segments, batch_size) is non-empty *)
RangeNonEmpty == batch_size > 0 /\ total_segments > 0

GatherComplete_NoneInFlight(lo, hi) == \A i \in lo..(hi - 1) : task[i].status # "calling"

(* asyncio.gather has a result once every task of the batch has returned   *)
GatherComplete(lo, hi) == \A i \in lo..(hi - 1) : task[i].status = "done"

(* asyncio.gather raises as soon as one task of the batch has raised       *)
GatherFailed(lo, hi) == \E i \in lo..(hi - 1) : task[i].status = "failed"

BatchPaths(lo, hi) == [k \in 1..(hi - lo) |-> ClipFilename(lo + k - 1)]

(* the tasks of a batch are created and each runs up to its first          *)
(* agenerate_speech call                                                   *)
StartBatch(start) ==
    /\ batch_start' = start
    /\ batch_end' = BatchEnd(start)
    /\ task' = [i \in Lines |->
                  IF i >= start /\ i < BatchEnd(start)
                     THEN [status |-> "calling", attempt |-> 0]
                     ELSE task[i]]
    /\ batches' = Append(batches, <<start, BatchEnd(start)>>)
    /\ pc' = "audio_gather"

AudioReturn(paths) ==
    /\ state' = [state EXCEPT !.audio_clips = @ \o paths]
    /\ pc' = "combine_audio"

AudioEnter ==
    /\ pc = "generate_all_audio"
    /\ all_clip_paths' = <<>>
    /\ IF batch_size = 0
          THEN /\ pc' = "raised_value_error"
               /\ UNCHANGED <<state, batch_start, batch_end, task, batches>>
          ELSE IF RangeNonEmpty
          THEN StartBatch(0) /\ UNCHANGED state
          ELSE AudioReturn(<<>>) /\ UNCHANGED <<batch_start, batch_end, task, batches>>
    /\ UNCHANGED <<batch_size, disk, pauses, combined, scriptVars, unitVars>>

GatherReturn_AlwaysSleeps ==
    /\ pc = "audio_gather"
    /\ GatherComplete(batch_start, batch_end)
    /\ all_clip_paths' = all_clip_paths \o BatchPaths(batch_start, batch_end)
    /\ pc' = "audio_sleep"
    /\ UNCHANGED <<state, batch_start, batch_end, task, batches, batch_size, disk, pauses,
                   combined, scriptVars, unitVars>>

GatherReturn ==
    /\ pc = "audio_gather"
    /\ GatherComplete(batch_start, batch_end)
    /\ all_clip_paths' = all_clip_paths \o BatchPaths(batch_start, batch_end)
    /\ IF batch_end < total_segments
          THEN /\ pc' = "audio_sleep"
               /\ UNCHANGED <<state, batch_start, batch_end, task, batches>>
          ELSE IF NextBatchStart(batch_start) < total_segments
          THEN StartBatch(NextBatchStart(batch_start)) /\ UNCHANGED state
          ELSE AudioReturn(all_clip_paths') /\ UNCHANGED <<batch_start, batch_end, task, batches>>
    /\ UNCHANGED <<batch_size, disk, pauses, combined, scriptVars, unitVars>>

GatherRaise_Swallowed ==
    /\ pc = "audio_gather"
    /\ GatherFailed(batch_start, batch_end)
    /\ AudioReturn(all_clip_paths)
    /\ UNCHANGED <<audioVars, scriptVars, unitVars>>

(* the exception of gather is not caught: it leaves the node and the graph *)
GatherRaise ==
    /\ pc = "audio_gather"
    /\ GatherFailed(batch_start, batch_end)
    /\ pc' = "raised_audio"
    /\ UNCHANGED <<state, audioVars, scriptVars, unitVars>>

(* asyncio.sleep(1) between batches is over: next iteration of the loop    *)
AudioNextBatch ==
    /\ pc = "audio_sleep"
    /\ pauses' = pauses + 1
    /\ IF NextBatchStart(batch_start) < total_segments
          THEN StartBatch(NextBatchStart(batch_start)) /\ UNCHANGED state
          ELSE AudioReturn(all_clip_paths) /\ UNCHANGED <<batch_start, batch_end, task, batches>>
    /\ UNCHANGED <<batch_size, all_clip_paths, disk, combined, scriptVars, unitVars>>

(***************************************************************************)
(* generate_single_audio_clip for line i: for attempt in range(5), one     *)
(* agenerate_speech call per attempt, 3 seconds of sleep after a failure,  *)
(* RuntimeError after the failure of attempt 4.                            *)
(***************************************************************************)
Clip(dialogue) == <<dialogue>>

CallSucceeds(i) ==
    /\ task[i].status = "calling"
    /\ task' = [task EXCEPT ![i].status = "done"]
    /\ disk' = [disk EXCEPT ![ClipFilename(i)] = Clip(state.transcript[i + 1])]
    /\ UNCHANGED <<pc, state, batch_size, batch_start, batch_end, all_clip_paths,
                   batches, pauses, combined, scriptVars, unitVars>>

CallFails(i) ==
    /\ task[i].status = "calling"
    /\ task' = [task EXCEPT ![i].status =
                  IF task[i].attempt = AudioLastAttempt THEN "failed" ELSE "sleeping"]
    /\ UNCHANGED <<pc, state, batch_size, batch_start, batch_end, all_clip_paths,
                   disk, batches, pauses, combined, scriptVars, unitVars>>

(* the 3 seconds are over: next iteration of the attempt loop; a loop that *)
(* runs out falls through to the return of clip_path                       *)
Retry(i) ==
    /\ task[i].status = "sleeping"
    /\ task' = [task EXCEPT ![i] =
                  IF task[i].attempt + 1 < AudioAttempts
                     THEN [status |-> "calling", attempt |-> task[i].attempt + 1]
                     ELSE [status |-> "done", attempt |-> task[i].attempt]]
    /\ UNCHANGED <<pc, state, batch_size, batch_start, batch_end, all_clip_paths,
                   disk, batches, pauses, combined, scriptVars, unitVars>>

(***************************************************************************)
(* combine_audio_node: core.combine_audio_files reads every clip file of   *)
(* the clips directory in the lexical order of the file names.             *)
(***************************************************************************)
FilesOnDisk == {n \in DOMAIN disk : disk[n] # <<>>}

CombineOrder == SortedNames(FilesOnDisk)

CombineAudio ==
    /\ pc = "combine_audio"
    /\ combined' = [k \in 1..Len(CombineOrder) |-> disk[CombineOrder[k]][1]]
    /\ state' = [state EXCEPT !.final_output_file_path =
                    [some |-> TRUE, clips |-> CombineOrder]]
    /\ pc' = "done"
    /\ UNCHANGED <<batch_size, batch_start, batch_end, task, all_clip_paths, disk,
                   batches, pauses, scriptVars, unitVars>>

(***************************************************************************)
(* Specifications.                                                         *)
(***************************************************************************)
ScriptIdle ==
    /\ attempt_outline = 0
    /\ attempt_transcript = 0
    /\ seg_i = 0
    /\ transcript = <<>>
    /\ outline_response = OutlineUnparsable
    /\ response = Unparsable
    /\ outline_calls = 0
    /\ outline_fails = 0
    /\ call_seg = -1
    /\ calls = 0
    /\ turns = 0
    /\ accepted = <<>>

AudioIdle ==
    /\ batch_start = 0
    /\ batch_end = 0
    /\ task = [i \in Lines |-> NoTask]
    /\ all_clip_paths = <<>>
    /\ disk = EarlierDisk(0)
    /\ batches = <<>>
    /\ pauses = 0
    /\ combined = <<>>

NamesIdle ==
    /\ idx_a = 0
    /\ idx_b = 0
    /\ name_a = <<>>
    /\ name_b = <<>>

SpeakersIdle ==
    /\ speakers = <<>>
    /\ profile = <<>>

NoKwargs == [instructions |-> None, reference_audio |-> None, dialect |-> None]

ClipIdle ==
    /\ backend = "kokoro"
    /\ dialect = None
    /\ custom_voice = None
    /\ emotion = None
    /\ speed = None
    /\ tts_kwargs = NoKwargs
    /\ clip_attempt = 0
    /\ clip_calls = 0
    /\ warned = FALSE
    /\ variant = None

KnownModels == {"kokoro", "index-tts", "soulx"}

NoInstance == [model_name |-> None, id |-> 0]

CacheIdle ==
    /\ instances = [n \in KnownModels |-> 0]
    /\ created = [n \in KnownModels |-> 0]
    /\ loads = [n \in KnownModels |-> 0]
    /\ tts = NoInstance
    /\ provider = "kokoro"
    /\ got = NoInstance
    /\ requests = 0

ContentIdle ==
    /\ content = NoContent
    /\ item_i = 0
    /\ processed_items = <<>>
    /\ model_calls = <<>>

UnitsIdle ==
    /\ NamesIdle
    /\ SpeakersIdle
    /\ ClipIdle
    /\ CacheIdle
    /\ ContentIdle

(* The script stages: outline, then transcript, for a run whose            *)
(* state["speaker_profile"] is set and for one where it is None.           *)
InitScript ==
    /\ pc = "generate_outline"
    /\ state \in {[EmptyState EXCEPT !.speaker_profile = p] : p \in {None, Profile}}
    /\ ScriptIdle
    /\ batch_size = 1
    /\ AudioIdle
    /\ UnitsIdle

NextScript ==
    \/ OutlineAttemptOk
    \/ OutlineAttemptFail
    \/ TranscriptAttemptOk
    \/ TranscriptAttemptFail
    \/ TranscriptEmptyOutline
    \/ TranscriptAssertion

SpecScript == InitScript /\ [][NextScript]_vars

(* The audio stages: synthesis scheduler, then combiner, for every         *)
(* transcript the script stages may hand over and every TTS_BATCH_SIZE.    *)
InitAudio ==
    /\ pc = "generate_all_audio"
    /\ state \in {[EmptyState EXCEPT !.outline = [some |-> TRUE, segments |-> <<>>],
                                     !.transcript = t] :
                     t \in SeqsUpTo(ValidDialogues, MaxLines)}
    /\ batch_size \in BatchSizes
    /\ ScriptIdle
    /\ batch_start = 0
    /\ batch_end = 0
    /\ task = [i \in Lines |-> NoTask]
    /\ all_clip_paths = <<>>
    /\ disk \in {EarlierDisk(m) : m \in EarlierRuns}
    /\ batches = <<>>
    /\ pauses = 0
    /\ combined = <<>>
    /\ UnitsIdle

NextAudio ==
    \/ AudioEnter
    \/ GatherReturn
    \/ GatherRaise
    \/ AudioNextBatch
    \/ \E i \in Lines : CallSucceeds(i)
    \/ \E i \in Lines : CallFails(i)
    \/ \E i \in Lines : Retry(i)
    \/ CombineAudio

SpecAudio == InitAudio /\ [][NextAudio]_vars

(* The clip file names of two lines of one transcript: the indices are     *)
(* drawn from the small ones and from those around each power of ten.      *)
MaxSmallIndex == 3

IndexSamples ==
    0..MaxSmallIndex \cup {9, 10, 11, 99, 100, 101, 999, 1000, 1001, 9999, 10000, 10001}

InitNames ==
    /\ pc = "name_clips"
    /\ state = EmptyState
    /\ idx_a \in IndexSamples
    /\ idx_b \in IndexSamples
    /\ name_a = <<>>
    /\ name_b = <<>>
    /\ ScriptIdle
    /\ batch_size = 1
    /\ AudioIdle
    /\ SpeakersIdle
    /\ ClipIdle
    /\ CacheIdle
    /\ ContentIdle

NameClips ==
    /\ pc = "name_clips"
    /\ name_a' = ClipFilename(idx_a)
    /\ name_b' = ClipFilename(idx_b)
    /\ pc' = "clips_named"
    /\ UNCHANGED <<state, idx_a, idx_b, scriptVars, audioVars, speakerVars, clipVars,
                   cacheVars, contentVars>>

NextNames == NameClips

SpecNames == InitNames /\ [][NextNames]_vars

(***************************************************************************)
(* SpeakerProfile(speakers=...) of speakers.py. Strings are sequences of   *)
(* characters, so that v.strip() and f"custom:{custom_voice}" are computed *)
(* as Python computes them.                                                *)
(***************************************************************************)
MinSpeakers == 1
MaxSpeakers == 4

MaxSpeakerList == 5

NoCustomVoice == [some |-> FALSE, ref |-> <<>>]
CustomVoice(r) == [some |-> TRUE, ref |-> r]

Speaker(n, v, c) == [name |-> n, voice_id |-> v, custom_voice |-> c]

Custom == <<"c", "u", "s", "t", "o", "m">>

(* Speakers a configuration may list: plain voices, custom voices with and *)
(* without reference, a voice id that spells "custom:a", a name with a     *)
(* leading blank, an empty name.                                           *)
SpeakerSamples ==
    << Speaker(<<"H", "o", "s", "t">>, <<"a", "l", "l", "o", "y">>, NoCustomVoice),
       Speaker(<<"G", "u", "e", "s", "t">>, <<"e", "c", "h", "o">>, NoCustomVoice),
       Speaker(<<"G", "u", "e", "s", "t">>, Custom, CustomVoice(<<"a">>)),
       Speaker(<<"A", "n", "n">>, Custom, CustomVoice(<<"b">>)),
       Speaker(<<"B", "o", "b">>, Custom \o <<":", "a">>, NoCustomVoice),
       Speaker(<<" ", "H", "o", "s", "t">>, <<"n", "o", "v", "a">>, NoCustomVoice),
       Speaker(<<>>, <<"f", "a", "b", "l", "e">>, NoCustomVoice),
       Speaker(<<"C", "a", "t">>, Custom, NoCustomVoice),
       Speaker(<<"D", "a", "n">>, Custom, CustomVoice(<<"a">>)),
       Speaker(<<"E", "v", "e">>, <<"a", "l", "l", "o", "y">>, CustomVoice(<<"b">>)) >>

(* The lists drawn: every multiset of samples of up to MaxSpeakerList      *)
(* speakers, in the order of the samples (the validation does not depend   *)
(* on the order of the list).                                              *)
SpeakerLists ==
    UNION {{[k \in 1..n |-> SpeakerSamples[ix[k]]] :
              ix \in {f \in [1..n -> 1..Len(SpeakerSamples)] :
                         \A k \in 1..(n - 1) : f[k] <= f[k + 1]}} :
           n \in 0..MaxSpeakerList}

RECURSIVE LStrip(_)
LStrip(v) == IF v # <<>> /\ Head(v) = " " THEN LStrip(Tail(v)) ELSE v

RECURSIVE RStrip(_)
RStrip(v) ==
    IF v # <<>> /\ v[Len(v)] = " " THEN RStrip(SubSeq(v, 1, Len(v) - 1)) ELSE v

Strip(v) == RStrip(LStrip(v))

(* Speaker.validate_name: raises on an empty or blank name, else v.strip() *)
NameRejected(v) == v = <<>> \/ Len(Strip(v)) = 0

validate_name(v) == Strip(v)

(* Speaker.validate_custom_voice returns v in every branch                 *)
validate_custom_voice(v) == v

ValidatedSpeaker(sp) ==
    Speaker(validate_name(sp.name), sp.voice_id, validate_custom_voice(sp.custom_voice))

(* truth value of speaker.custom_voice: neither None nor ""                *)
Truthy(c) == c.some /\ c.ref # <<>>

VoiceKey(speaker) ==
    IF speaker.voice_id = Custom /\ Truthy(speaker.custom_voice)
       THEN Custom \o <<":">> \o speaker.custom_voice.ref
       ELSE speaker.voice_id

(* len(xs) == len(set(xs))                                                 *)
Unique(xs) == \A i, j \in DOMAIN xs : i < j => xs[i] # xs[j]

validate_speakers(v) ==
    /\ ~(Len(v) < MinSpeakers \/ Len(v) > MaxSpeakers)
    /\ Unique([k \in DOMAIN v |-> v[k].name])
    /\ Unique([k \in DOMAIN v |-> VoiceKey(v[k])])

ConstructProfile ==
    /\ pc = "construct_profile"
    /\ LET v == [k \in DOMAIN speakers |-> ValidatedSpeaker(speakers[k])]
       IN IF (\A k \in DOMAIN speakers : ~NameRejected(speakers[k].name))
             /\ validate_speakers(v)
             THEN profile' = v /\ pc' = "profile_accepted"
             ELSE profile' = <<>> /\ pc' = "raised_validation_error"
    /\ UNCHANGED <<state, speakers, scriptVars, audioVars, nameVars, clipVars,
                   cacheVars, contentVars>>

InitSpeakers ==
    /\ pc = "construct_profile"
    /\ state = EmptyState
    /\ speakers \in SpeakerLists
    /\ profile = <<>>
    /\ ScriptIdle
    /\ batch_size = 1
    /\ AudioIdle
    /\ NamesIdle
    /\ ClipIdle
    /\ CacheIdle
    /\ ContentIdle

NextSpeakers == ConstructProfile

SpecSpeakers == InitSpeakers /\ [][NextSpeakers]_vars

(***************************************************************************)
(* One generate_single_audio_clip in detail: the request it prepares from  *)
(* the speaker's custom voice and the dialect, and what the backend that   *)
(* serves agenerate_speech does with it. The backends are the wrappers of  *)
(* llm/tts.py behind the OpenAI-compatible endpoint (kokoro, index-tts,    *)
(* soulx) and the Qwen provider.                                           *)
(***************************************************************************)
Backends == {"kokoro", "index-tts", "soulx", "qwen"}

(* dialects a run may request: none, the standard one, an alias of a       *)
(* dialect SoulX has a tag for, and one no backend knows                   *)
Dialects == {None, "mandarin", "sichuanese", "hakka"}

(* the speaker has no custom voice, one that names an existing file, or    *)
(* one that names a file that does not exist                               *)
CustomVoices == {None, "existing_file", "missing_file"}

(* nodes.py:463-482: an existing file is read and sent base64-encoded, any *)
(* other string is sent as it is                                           *)
ReferenceAudio(cv) ==
    IF cv = None THEN None
    ELSE IF cv = "existing_file" THEN "base64_of_file"
    ELSE cv

(* EmotionConfig.emotions: two emotions of a configuration, with the name  *)
(* and the description of each                                             *)
emotions_config ==
    [n \in {"Happy", "Sad"} |->
        [name |-> n,
         description |-> IF n = "Happy" THEN "bright and upbeat" ELSE "low and slow"]]

(* EmotionConfig.get_emotion *)
get_emotion(name) ==
    IF name \notin DOMAIN emotions_config THEN "ValueError" ELSE emotions_config[name]

(* SpeedConfig.speeds, in tenths: slow 0.9 and fast 1.1 *)
speeds == [n \in {"slow", "fast"} |-> IF n = "slow" THEN 9 ELSE 11]

(* SpeedConfig.get_speed_name_value, in tenths *)
get_speed_name_value(name) == IF name \notin DOMAIN speeds THEN 10 ELSE speeds[name]

(* the capability the providers of kokoro and qwen report, the two         *)
(* backends whose provider states one                                      *)
CapabilityKnown == {"kokoro", "qwen"}

Capability(b) ==
    [supports_instructions |-> FALSE,
     supports_custom_voice |-> FALSE,
     supported_dialects |-> {"mandarin"}]

(* nodes.py:458-461: the emotion of the line is what goes into the request *)
Instructions(em) == IF em # None THEN em ELSE None

(* nodes.py:494-498 *)
DialectKwarg(d) == IF d # None THEN d ELSE None

(* dialect_utils.normalize_dialect_name *)
normalize_dialect_name(d) ==
    IF d = None THEN None
    ELSE IF d = "sichuanese" THEN "sichuan"
    ELSE d

(* dialect_utils.DIALECT_TAGS has a tag for the name *)
HasDialectTag(d) == d \in {"sichuan", "sichuanese"}

(* dialects the backend supports: capability.supported_dialects of the     *)
(* providers, dialect_utils.SUPPORTED_DIALECTS for SoulX                   *)
SupportedDialects(b) ==
    IF b = "soulx" THEN {"mandarin", "sichuanese"} ELSE {"mandarin"}

(* the backend logs a warning about the dialect of the request: the Kokoro *)
(* and IndexTTS wrappers for every dialect given, SoulX and Qwen never     *)
BackendWarns(b, kw) == b \in {"kokoro", "index-tts"} /\ kw.dialect # None

(* the language variant of the clip: SoulX speaks the dialect it has a tag *)
(* for, everything else is standard Chinese                                *)
BackendVariant(b, kw) ==
    IF b = "soulx" /\ kw.dialect # None
          /\ normalize_dialect_name(kw.dialect) # "mandarin"
          /\ HasDialectTag(normalize_dialect_name(kw.dialect))
       THEN normalize_dialect_name(kw.dialect)
       ELSE "mandarin"

ClipPrepare ==
    /\ pc = "clip_prepare"
    /\ tts_kwargs' = [instructions |-> Instructions(emotion),
                      reference_audio |-> ReferenceAudio(custom_voice),
                      dialect |-> DialectKwarg(dialect)]
    /\ clip_attempt' = 0
    /\ clip_calls' = clip_calls + 1
    /\ pc' = "clip_calling"
    /\ UNCHANGED <<state, backend, dialect, custom_voice, emotion, speed, warned, variant,
                   scriptVars, audioVars, nameVars, speakerVars, cacheVars,
                   contentVars>>

(* agenerate_speech returns: the backend has handled the request           *)
ClipCallOk ==
    /\ pc = "clip_calling"
    /\ warned' = (warned \/ BackendWarns(backend, tts_kwargs))
    /\ variant' = BackendVariant(backend, tts_kwargs)
    /\ pc' = "clip_done"
    /\ UNCHANGED <<state, backend, dialect, custom_voice, emotion, speed, tts_kwargs, clip_attempt,
                   clip_calls, scriptVars, audioVars, nameVars, speakerVars, cacheVars,
                   contentVars>>

(* agenerate_speech raises, before or after the backend saw the request:   *)
(* RuntimeError after attempt 4, else 3 seconds of sleep                   *)
ClipCallFail ==
    /\ pc = "clip_calling"
    /\ warned' \in {warned, warned \/ BackendWarns(backend, tts_kwargs)}
    /\ pc' = IF clip_attempt = AudioLastAttempt THEN "raised_clip" ELSE "clip_sleeping"
    /\ UNCHANGED <<state, backend, dialect, custom_voice, emotion, speed, tts_kwargs, clip_attempt,
                   clip_calls, variant, scriptVars, audioVars, nameVars, speakerVars, cacheVars,
                   contentVars>>

ClipRetry ==
    /\ pc = "clip_sleeping"
    /\ clip_attempt' = clip_attempt + 1
    /\ clip_calls' = clip_calls + 1
    /\ pc' = "clip_calling"
    /\ UNCHANGED <<state, backend, dialect, custom_voice, emotion, speed, tts_kwargs,
                   warned, variant, scriptVars, audioVars, nameVars, speakerVars, cacheVars,
                   contentVars>>

InitClip ==
    /\ pc = "clip_prepare"
    /\ state = EmptyState
    /\ backend \in Backends
    /\ dialect \in Dialects
    /\ custom_voice \in CustomVoices
    /\ emotion \in {None} \cup DOMAIN emotions_config
    /\ speed \in {None} \cup DOMAIN speeds
    /\ tts_kwargs = NoKwargs
    /\ clip_attempt = 0
    /\ clip_calls = 0
    /\ warned = FALSE
    /\ variant = None
    /\ ScriptIdle
    /\ batch_size = 1
    /\ AudioIdle
    /\ NamesIdle
    /\ SpeakersIdle
    /\ CacheIdle
    /\ ContentIdle

NextClip ==
    \/ ClipPrepare
    \/ ClipCallOk
    \/ ClipCallFail
    \/ ClipRetry

SpecClip == InitClip /\ [][NextClip]_vars

(***************************************************************************)
(* The synthesis service process: TTSFactory.get_tts (llm/tts.py) and      *)
(* load_tts (llm/service.py), called any number of times up to             *)
(* MaxRequests.                                                            *)
(***************************************************************************)
MaxRequests == 3

(* model names a caller may ask for: the three the factory knows and the   *)
(* default model of a TTSRequest, which it does not                        *)
ModelNames == KnownModels \cup {"tts-1"}

(* tts = XxxTTSWrapper(); tts.load_model(); cls._instances[model_name] = tts *)
Instantiate(name) ==
    /\ created' = [created EXCEPT ![name] = @ + 1]
    /\ loads' = [loads EXCEPT ![name] = @ + 1]
    /\ instances' = [instances EXCEPT ![name] = created[name] + 1]

Cached(name) == name \in KnownModels /\ instances[name] # 0

(* TTSFactory.get_tts(model_name): ValueError for an unknown name          *)
GetTTS(name) ==
    /\ pc = "serving"
    /\ requests < MaxRequests
    /\ requests' = requests + 1
    /\ IF Cached(name)
          THEN /\ got' = [model_name |-> name, id |-> instances[name]]
               /\ UNCHANGED <<instances, created, loads>>
          ELSE IF name \in KnownModels
          THEN /\ Instantiate(name)
               /\ got' = [model_name |-> name, id |-> instances'[name]]
          ELSE /\ got' = NoInstance
               /\ UNCHANGED <<instances, created, loads>>
    /\ UNCHANGED <<pc, state, tts, provider, scriptVars, audioVars, nameVars,
                   speakerVars, clipVars, contentVars>>

(* load_tts(): if tts is None: tts = TTSFactory.get_tts(config.TTS_PROVIDER) *)
(* and then tts.load_model()                                               *)
LoadTTS ==
    /\ pc = "serving"
    /\ requests < MaxRequests
    /\ requests' = requests + 1
    /\ IF tts # NoInstance
          THEN UNCHANGED <<instances, created, loads, tts, got>>
          ELSE IF Cached(provider)
          THEN /\ got' = [model_name |-> provider, id |-> instances[provider]]
               /\ tts' = got'
               /\ loads' = [loads EXCEPT ![provider] = @ + 1]
               /\ UNCHANGED <<instances, created>>
          ELSE IF provider \in KnownModels
          THEN /\ created' = [created EXCEPT ![provider] = @ + 1]
               /\ instances' = [instances EXCEPT ![provider] = created[provider] + 1]
               /\ got' = [model_name |-> provider, id |-> instances'[provider]]
               /\ tts' = got'
               /\ loads' = [loads EXCEPT ![provider] = @ + 2]
          ELSE /\ got' = NoInstance
               /\ UNCHANGED <<instances, created, loads, tts>>
    /\ UNCHANGED <<pc, state, provider, scriptVars, audioVars, nameVars,
                   speakerVars, clipVars, contentVars>>

InitCache ==
    /\ pc = "serving"
    /\ state = EmptyState
    /\ instances = [n \in KnownModels |-> 0]
    /\ created = [n \in KnownModels |-> 0]
    /\ loads = [n \in KnownModels |-> 0]
    /\ tts = NoInstance
    /\ provider \in ModelNames
    /\ got = NoInstance
    /\ requests = 0
    /\ ScriptIdle
    /\ batch_size = 1
    /\ AudioIdle
    /\ NamesIdle
    /\ SpeakersIdle
    /\ ClipIdle
    /\ ContentIdle

NextCache ==
    \/ \E name \in ModelNames : GetTTS(name)
    \/ LoadTTS

SpecCache == InitCache /\ [][NextCache]_vars

(***************************************************************************)
(* content_transform_node: per str item, a summary call when the stripped  *)
(* item is longer than 5000 characters, nothing when it has 500 or more,   *)
(* else a judge call and, when the two characters U+9700 U+8981 ("needed") *)
(* occur in the answer, a QA call. The node returns                        *)
(* {"content": processed_content}. Texts of answers are sequences of code  *)
(* points.                                                                 *)
(***************************************************************************)
SummaryThreshold == 5000
JudgeThreshold == 500

MaxItems == 2

(* a str item: pad blanks around len other characters; a model response;   *)
(* an item that is no str                                                  *)
StrItem(p, n) == [kind |-> "str", pad |-> p, len |-> n, call |-> None, item |-> 0]
ResponseItem(c, i) == [kind |-> "response", pad |-> 0, len |-> 0, call |-> c, item |-> i]
OtherItem == [kind |-> "other", pad |-> 0, len |-> 0, call |-> None, item |-> 0]

(* items around the two thresholds, one of them below 500 and one not      *)
(* above 5000 only once they are stripped                                  *)
StrSamples ==
    {StrItem(0, 499), StrItem(1, 499), StrItem(0, 500), StrItem(0, 5000), StrItem(1, 5000),
     StrItem(0, 5001)}

ItemSamples == StrSamples \cup {OtherItem}

ContentSamples ==
    {[is_list |-> FALSE, items |-> <<x>>] : x \in StrSamples}
    \cup {[is_list |-> TRUE, items |-> l] : l \in SeqsUpTo(ItemSamples, MaxItems)}

(* len(item.strip()) *)
StrippedLen_Raw(x) == x.pad + x.len

StrippedLen(x) == x.len

(* the answers "needed" (U+9700 U+8981), "not needed" (U+4E0D U+9700       *)
(* U+8981) and "no" (U+5426)                                               *)
Need == <<38656, 35201>>
NotNeed == <<19981, 38656, 35201>>
JudgeAnswers == {Need, NotNeed, <<21542>>}

(* needle in hay, for str *)
Contains(hay, needle) ==
    \E k \in 0..(Len(hay) - Len(needle)) : SubSeq(hay, k + 1, k + Len(needle)) = needle

NeedsQA(answer) == Contains(answer, Need)

Call(i, c, a) == [item |-> i, call |-> c, answer |-> a]

ContentItems == content.items

CurrentItem == ContentItems[item_i + 1]

(* the item's turn is over with result x; after the last item the node     *)
(* returns its update of content                                           *)
ContentAfter_Prepends(x) ==
    /\ processed_items' = <<x>> \o processed_items
    /\ item_i' = item_i + 1
    /\ IF item_i + 1 = Len(ContentItems)
          THEN /\ state' = [state EXCEPT !.content.items = processed_items']
               /\ pc' = "content_transformed"
          ELSE UNCHANGED <<pc, state>>

ContentAfter(x) ==
    /\ processed_items' = Append(processed_items, x)
    /\ item_i' = item_i + 1
    /\ IF item_i + 1 = Len(ContentItems)
          THEN /\ state' = [state EXCEPT !.content.items = processed_items']
               /\ pc' = "content_transformed"
          ELSE UNCHANGED <<pc, state>>

ContentRunning == pc = "content_transform" /\ item_i < Len(ContentItems)

ContentSummarize ==
    /\ ContentRunning
    /\ CurrentItem.kind = "str"
    /\ StrippedLen(CurrentItem) > SummaryThreshold
    /\ model_calls' = Append(model_calls, Call(item_i, "summary", <<>>))
    /\ ContentAfter(ResponseItem("summary", item_i))
    /\ UNCHANGED <<content, scriptVars, audioVars, nameVars, speakerVars, clipVars, cacheVars>>

ContentPass ==
    /\ ContentRunning
    /\ \/ CurrentItem.kind # "str"
       \/ /\ StrippedLen(CurrentItem) <= SummaryThreshold
          /\ StrippedLen(CurrentItem) >= JudgeThreshold
    /\ ContentAfter(CurrentItem)
    /\ UNCHANGED <<content, model_calls, scriptVars, audioVars, nameVars, speakerVars,
                   clipVars, cacheVars>>

ContentJudged ==
    /\ ContentRunning
    /\ CurrentItem.kind = "str"
    /\ StrippedLen(CurrentItem) < JudgeThreshold
    /\ \E answer \in JudgeAnswers :
          IF NeedsQA(answer)
             THEN /\ model_calls' = model_calls \o <<Call(item_i, "judge", answer),
                                                     Call(item_i, "qa", <<>>)>>
                  /\ ContentAfter(ResponseItem("qa", item_i))
             ELSE /\ model_calls' = Append(model_calls, Call(item_i, "judge", answer))
                  /\ ContentAfter(CurrentItem)
    /\ UNCHANGED <<content, scriptVars, audioVars, nameVars, speakerVars, clipVars, cacheVars>>

(* a model call raises: the summary call, the judge call, or the QA call   *)
(* after a judge answer that asks for it                                   *)
ContentCallFails_CommitsPartial ==
    /\ ContentRunning
    /\ CurrentItem.kind = "str"
    /\ \/ /\ StrippedLen(CurrentItem) > SummaryThreshold
          /\ model_calls' = Append(model_calls, Call(item_i, "summary", <<>>))
       \/ /\ StrippedLen(CurrentItem) < JudgeThreshold
          /\ model_calls' = Append(model_calls, Call(item_i, "judge", <<>>))
    /\ state' = [state EXCEPT !.content.items = processed_items]
    /\ pc' = "raised_content"
    /\ UNCHANGED <<content, item_i, processed_items, scriptVars, audioVars, nameVars,
                   speakerVars, clipVars, cacheVars>>

ContentCallFails ==
    /\ ContentRunning
    /\ CurrentItem.kind = "str"
    /\ \/ /\ StrippedLen(CurrentItem) > SummaryThreshold
          /\ model_calls' = Append(model_calls, Call(item_i, "summary", <<>>))
       \/ /\ StrippedLen(CurrentItem) < JudgeThreshold
          /\ model_calls' = Append(model_calls, Call(item_i, "judge", <<>>))
       \/ /\ StrippedLen(CurrentItem) < JudgeThreshold
          /\ \E answer \in JudgeAnswers :
                /\ NeedsQA(answer)
                /\ model_calls' = model_calls \o <<Call(item_i, "judge", answer),
                                                   Call(item_i, "qa", <<>>)>>
    /\ pc' = "raised_content"
    /\ UNCHANGED <<state, content, item_i, processed_items, scriptVars, audioVars,
                   nameVars, speakerVars, clipVars, cacheVars>>

(* an empty list: the loop body never runs                                 *)
ContentEmptyList ==
    /\ pc = "content_transform"
    /\ Len(ContentItems) = 0
    /\ state' = [state EXCEPT !.content.items = processed_items]
    /\ pc' = "content_transformed"
    /\ UNCHANGED <<contentVars, scriptVars, audioVars, nameVars, speakerVars, clipVars,
                   cacheVars>>

InitContent ==
    /\ pc = "content_transform"
    /\ state \in {[EmptyState EXCEPT !.content = c] : c \in ContentSamples}
    /\ content = state.content
    /\ item_i = 0
    /\ processed_items = <<>>
    /\ model_calls = <<>>
    /\ ScriptIdle
    /\ batch_size = 1
    /\ AudioIdle
    /\ NamesIdle
    /\ SpeakersIdle
    /\ ClipIdle
    /\ CacheIdle

NextContent ==
    \/ ContentSummarize
    \/ ContentPass
    \/ ContentJudged
    \/ ContentCallFails
    \/ ContentEmptyList

SpecContent == InitContent /\ [][NextContent]_vars

(***************************************************************************)
(* Properties of the audio stages.                                         *)
(***************************************************************************)
AudioReturned == pc \in {"combine_audio", "done"}

InFlight == {i \in Lines : task[i].status = "calling"}

Finished(i) == task[i].status \in {"done", "failed"}

InBatch(i, k) == batches[k][1] <= i /\ i < batches[k][2]

(* C1: when generate_all_audio_node has returned, audio_clips has one      *)
(* entry per transcript line and entry i is clips/{i:04d}.mp3, the file    *)
(* holding the clip synthesized from transcript[i].                        *)
ClipsAlignedWithTranscript ==
    AudioReturned =>
       /\ Len(state.audio_clips) = total_segments
       /\ \A i \in 0..(total_segments - 1) :
             /\ state.audio_clips[i + 1] = ClipFilename(i)
             /\ disk[ClipFilename(i)] = Clip(state.transcript[i + 1])

(* The same alignment for the positive batch sizes.                        *)
ClipsAlignedForPositiveBatchSize == batch_size >= 1 => ClipsAlignedWithTranscript

(* C2: of two lines of a transcript, the clip file of the earlier line     *)
(* sorts lexically before the clip file of the later one, whatever the     *)
(* indices.                                                                *)
LexicalOrderIsTranscriptOrder ==
    (pc = "clips_named" /\ idx_a < idx_b) => LexLess(name_a, name_b)

(* The same order for the indices that fit the four digits.                *)
LexicalOrderUpToFourDigits ==
    (pc = "clips_named" /\ idx_a < idx_b /\ idx_b <= 9999) => LexLess(name_a, name_b)

(* C3: the calls in flight all belong to the batch started last, they are  *)
(* at most batch_size, and every line of an earlier batch has finished.    *)
OneBatchInFlight ==
    /\ \A i \in InFlight : batches # <<>> /\ InBatch(i, Len(batches))
    /\ InFlight # {} => Cardinality(InFlight) <= batch_size
    /\ \A k \in 1..(Len(batches) - 1) :
          \A i \in Lines : InBatch(i, k) => Finished(i)

OneBatchInFlightWitness ==
    /\ Len(batches) = 2
    /\ InFlight = {2}
    /\ task[0].attempt > 0
    /\ task[1].attempt = 0

(* C4: a line is attempted at most 5 times; a line whose call succeeded    *)
(* has its clip on disk and is never attempted again; a line whose 5th     *)
(* attempt failed raises, and the node then never returns.                 *)
AttemptsBounded ==
    \A i \in Lines :
       /\ task[i].status = "calling" => task[i].attempt \in 0..4
       /\ task[i].status = "sleeping" => task[i].attempt \in 0..3
       /\ task[i].status = "failed" =>
             /\ task[i].attempt = 4
             /\ pc \in {"audio_gather", "raised_audio"}
       /\ task[i].status = "done" =>
             /\ task[i].attempt \in 0..4
             /\ disk[ClipFilename(i)] = Clip(state.transcript[i + 1])

NoAttemptAfterSuccess ==
    \A i \in Lines : task[i].status = "done" => task'[i] = task[i]

AtMostFiveAttempts == []AttemptsBounded /\ [][NoAttemptAfterSuccess]_vars

AtMostFiveAttemptsWitness ==
    /\ pc = "done"
    /\ \E i \in Lines : task[i].status = "done" /\ task[i].attempt = 4
    /\ Len(state.audio_clips) = total_segments

(* C5: for a batch size b >= 1 the batches are the contiguous slices       *)
(* [0,b), [b,2b), ... of 0..N-1, ceil(N/b) of them, the last one holding   *)
(* the remaining lines, and every line is scheduled in exactly one.        *)
CeilDiv(n, b) == (n + b - 1) \div b

ExpectedBatches(n, b) == [k \in 1..CeilDiv(n, b) |-> <<(k - 1) * b, Min(k * b, n)>>]

IsPrefix(a, b) == Len(a) <= Len(b) /\ \A k \in 1..Len(a) : a[k] = b[k]

BatchPartition ==
    batch_size >= 1 =>
       /\ IsPrefix(batches, ExpectedBatches(total_segments, batch_size))
       /\ \A i \in Lines :
             task[i].status # "none" <=>
                Cardinality({k \in 1..Len(batches) : InBatch(i, k)}) = 1
       /\ AudioReturned =>
             /\ batches = ExpectedBatches(total_segments, batch_size)
             /\ \A i \in 0..(total_segments - 1) :
                   Cardinality({k \in 1..Len(batches) : InBatch(i, k)}) = 1

BatchPartitionWitness ==
    /\ AudioReturned
    /\ batch_size = 2
    /\ batches = << <<0, 2>>, <<2, 3>> >>

(***************************************************************************)
(* Properties of the script stages.                                        *)
(***************************************************************************)
UnknownName(d) ==
    \/ d.speaker \notin speaker_names
    \/ d.emotion # None /\ d.emotion \notin emotions_names
    \/ d.speed # None /\ d.speed \notin speed_names

HasUnknownName(resp) == resp.ok /\ \E k \in 1..Len(resp.lines) : UnknownName(resp.lines[k])

HasKnownLine(resp) == resp.ok /\ \E k \in 1..Len(resp.lines) : ~UnknownName(resp.lines[k])

TranscriptCallIssued == <<call_seg, calls>>' # <<call_seg, calls>>

(* C6: a model output with a line whose speaker, emotion or speed name is  *)
(* unknown appends nothing to the transcript and counts as a failed        *)
(* attempt of its segment: the segment is tried again, or, after the third *)
(* attempt, the node raises.                                               *)
RejectedStep ==
    (TranscriptCallIssued /\ HasUnknownName(response')) =>
       /\ transcript' = transcript
       /\ accepted' = accepted
       /\ state' = state
       /\ seg_i' = seg_i
       /\ \/ pc' = "generate_transcript" /\ attempt_transcript' = attempt_transcript + 1
          \/ pc' = "raised_transcript" /\ attempt_transcript = 2

WholeOutputRejected == [][RejectedStep]_vars

WholeOutputRejectedWitness ==
    /\ pc = "generate_transcript"
    /\ HasUnknownName(response)
    /\ HasKnownLine(response)
    /\ call_seg = seg_i
    /\ attempt_transcript = 1
    /\ transcript # <<>>

(* C7: every Dialogue of the transcript, the one being built and the one   *)
(* returned, has a configured speaker name and, when present, a configured *)
(* emotion and speed name.                                                 *)
TranscriptNamesConfigured ==
    /\ \A k \in 1..Len(transcript) : ~UnknownName(transcript[k])
    /\ \A k \in 1..Len(state.transcript) : ~UnknownName(state.transcript[k])

TranscriptNamesConfiguredWitness ==
    /\ pc = "generate_all_audio"
    /\ calls >= 2
    /\ \E k \in 1..Len(state.transcript) : state.transcript[k].emotion # None
    /\ \E k \in 1..Len(state.transcript) : state.transcript[k].emotion = None

(* C8: the transcript is the concatenation of the accepted outputs, one    *)
(* per segment in outline order; the returned transcript holds one         *)
(* accepted output for every segment of the outline.                       *)
AcceptedLines == [k \in 1..Len(accepted) |-> accepted[k].lines]

TranscriptIsConcatenation ==
    /\ transcript = Flatten(AcceptedLines)
    /\ \A k \in 1..Len(accepted) : accepted[k].seg = k - 1
    /\ pc = "generate_all_audio" =>
          /\ state.transcript = Flatten(AcceptedLines)
          /\ Len(accepted) = Len(Segments)

TranscriptIsConcatenationWitness ==
    /\ pc = "generate_all_audio"
    /\ Len(accepted) = 2
    /\ calls >= 2
    /\ accepted[1].lines # <<>>
    /\ accepted[2].lines # <<>>
    /\ accepted[1].lines # accepted[2].lines

(* C9: a segment gets at most 3 model calls, its third failure raises, and *)
(* every model call is for the first segment not yet accepted.             *)
SegmentCallsBounded ==
    /\ calls <= 3
    /\ pc = "raised_transcript" => calls = 3 /\ call_seg = seg_i
    /\ (pc = "generate_transcript" /\ seg_i < Len(Segments)) =>
          /\ attempt_transcript <= 2
          /\ calls = IF call_seg = seg_i THEN attempt_transcript ELSE calls
          /\ call_seg # seg_i => attempt_transcript = 0

CallForFirstOpenSegment ==
    /\ seg_i' >= seg_i
    /\ TranscriptCallIssued =>
          /\ call_seg' = seg_i
          /\ call_seg' >= call_seg
          /\ Len(accepted) = call_seg'

RetryScopedPerSegment == []SegmentCallsBounded /\ [][CallForFirstOpenSegment]_vars

RetryScopedPerSegmentWitness ==
    /\ pc = "raised_transcript"
    /\ seg_i = 1
    /\ Len(accepted) = 1
    /\ accepted[1].lines # <<>>

(* C10: the outline node issues at most 3 model calls, returns the outline *)
(* of the first response that parses without a further call, and raises    *)
(* exactly when 3 attempts have failed.                                    *)
OutlineRetry ==
    /\ outline_calls <= 3
    /\ pc = "raised_outline" <=> outline_fails = 3
    /\ pc = "generate_outline" =>
          /\ ~state.outline.some
          /\ outline_calls = attempt_outline
          /\ outline_fails = attempt_outline
          /\ attempt_outline <= 2
    /\ state.outline.some =>
          /\ outline_calls = outline_fails + 1
          /\ outline_response.ok
          /\ state.outline.segments = outline_response.segments

OutlineRetryWitness ==
    /\ pc = "generate_all_audio"
    /\ outline_calls = 3
    /\ Len(state.outline.segments) = 2

(***************************************************************************)
(* C11: when a line has exhausted its 5 synthesis attempts the run aborts: *)
(* the scheduler is still in the gather of that batch or has raised, no    *)
(* further batch is started, the pipeline state gets no audio_clips and no *)
(* final_output_file_path, the combiner has not run and does not run, and  *)
(* every clip file that is on disk stays on disk.                          *)
(***************************************************************************)
AnyTaskFailed == \E i \in Lines : task[i].status = "failed"

AbortedState ==
    AnyTaskFailed =>
        /\ pc \in {"audio_gather", "raised_audio"}
        /\ state.audio_clips = <<>>
        /\ ~state.final_output_file_path.some
        /\ combined = <<>>

AbortedStep ==
    AnyTaskFailed =>
        /\ batches' = batches
        /\ state' = state
        /\ combined' = combined
        /\ \A n \in DOMAIN disk : disk[n] # <<>> => disk'[n] # <<>>

ExhaustedRetriesAbort == []AbortedState /\ [][AbortedStep]_vars

(* the run has raised for one line while another line's clip is on disk    *)
(* and a later batch was never started                                     *)
ExhaustedRetriesAbortWitness ==
    /\ pc = "raised_audio"
    /\ \E i, j, k \in Lines :
          /\ task[i].status = "failed"
          /\ task[i].attempt = AudioLastAttempt
          /\ task[j].status = "done"
          /\ disk[ClipFilename(j)] # <<>>
          /\ k < total_segments
          /\ task[k].status = "none"

(***************************************************************************)
(* C12: after a run over a reused output directory has succeeded, the      *)
(* clips the combiner read and the combined output are exactly the N clips *)
(* 0..N-1 of this run's transcript, whatever an earlier run left there.    *)
(***************************************************************************)
LatestRunOnly ==
    /\ state.final_output_file_path.clips = BatchPaths(0, total_segments)
    /\ combined = state.transcript

CombinerReadsLatestRunOnly == pc = "done" => LatestRunOnly

(* it does so when the batch size is positive and the directory holds no   *)
(* clip with an index from N on                                            *)
CombinerReadsLatestRunWithoutLeftovers ==
    (pc = "done" /\ batch_size > 0 /\ \A n \in FilesOnDisk : \E i \in Lines :
        i < total_segments /\ n = ClipFilename(i)) => LatestRunOnly

(***************************************************************************)
(* C13: the turn count computed for a segment is a function of its size    *)
(* class alone: 2 for short, 5 for medium, 8 for long.                     *)
(***************************************************************************)
TurnsOfSize == [short |-> 2, medium |-> 5, long |-> 8]

TurnsBySizeClass ==
    call_seg >= 0 => turns = TurnsOfSize[Segments[call_seg + 1].size]

(* the second segment, a medium one after a short one, got 5 turns         *)
TurnsBySizeClassWitness ==
    /\ call_seg = 1
    /\ Segments[1].size = "short"
    /\ Segments[2].size = "medium"
    /\ turns = 5

(***************************************************************************)
(* C17: in a run whose speaker profile is missing no language-model call   *)
(* is issued by any stage and nothing is retried.                          *)
(***************************************************************************)
NoModelCallWithoutProfile ==
    state.speaker_profile = None =>
        /\ outline_calls = 0
        /\ calls = 0
        /\ attempt_outline = 0

(* with a profile missing, the transcript stage does fail before its first *)
(* model call                                                              *)
TranscriptStageFailsWithoutProfile ==
    state.speaker_profile = None =>
        /\ calls = 0
        /\ state.transcript = <<>>
        /\ pc \in {"generate_outline", "raised_outline", "generate_transcript",
                    "raised_assertion"}

(***************************************************************************)
(* C14: SpeakerProfile construction accepts a speaker list exactly when it *)
(* has 1 to 4 speakers, the names are pairwise distinct, and the voice ids *)
(* are pairwise distinct except that speakers may share the voice id       *)
(* "custom" when their custom-voice references are pairwise distinct.      *)
(***************************************************************************)
VoicesDistinct(a, b) ==
    \/ a.voice_id # b.voice_id
    \/ /\ a.voice_id = Custom
       /\ b.voice_id = Custom
       /\ a.custom_voice # b.custom_voice

ListAcceptable(v) ==
    /\ Len(v) >= 1
    /\ Len(v) <= 4
    /\ \A i, j \in DOMAIN v : i < j => v[i].name # v[j].name
    /\ \A i, j \in DOMAIN v : i < j => VoicesDistinct(v[i], v[j])

ProfileAcceptedExactlyWhenAcceptable ==
    pc # "construct_profile" => (pc = "profile_accepted" <=> ListAcceptable(speakers))

(* every list that is accepted does satisfy the three conditions           *)
AcceptedProfileIsAcceptable ==
    pc = "profile_accepted" => ListAcceptable(speakers)

(* and a list of speakers with non-blank names that differ after strip()   *)
(* and voice ids that do not spell "custom:..." is accepted exactly when   *)
(* acceptable                                                              *)
StartsWith(v, pre) == Len(v) >= Len(pre) /\ SubSeq(v, 1, Len(pre)) = pre

PlainList(v) ==
    /\ \A k \in DOMAIN v : ~NameRejected(v[k].name) /\ Strip(v[k].name) = v[k].name
    /\ \A k \in DOMAIN v : ~StartsWith(v[k].voice_id, Custom \o <<":">>)

PlainListAcceptedExactlyWhenAcceptable ==
    (pc # "construct_profile" /\ PlainList(speakers)) =>
        (pc = "profile_accepted" <=> ListAcceptable(speakers))

(* the list of Guest (custom voice "a") and Bob (voice id "custom:a") is   *)
(* rejected although names and voice ids differ                            *)
CustomKeyCollision ==
    /\ pc = "raised_validation_error"
    /\ speakers = <<SpeakerSamples[3], SpeakerSamples[5]>>
    /\ ListAcceptable(speakers)

(***************************************************************************)
(* C15: when the dialect requested is one the backend does not support,    *)
(* the clip that is produced is in the default language variant and a      *)
(* warning has been logged.                                                *)
(***************************************************************************)
DialectUnsupported == dialect # None /\ dialect \notin SupportedDialects(backend)

UnsupportedDialectFallsBack ==
    (pc = "clip_done" /\ DialectUnsupported) => (warned /\ variant = "mandarin")

(* the clip is in the default variant for every backend; the warning is    *)
(* logged by the Kokoro and IndexTTS wrappers                              *)
UnsupportedDialectDefaultVariant ==
    (pc = "clip_done" /\ DialectUnsupported) =>
        /\ variant = "mandarin"
        /\ backend \in {"kokoro", "index-tts"} => warned

(* Qwen has produced a clip for an unknown dialect without any warning     *)
SilentFallback ==
    /\ pc = "clip_done"
    /\ backend = "qwen"
    /\ dialect = "hakka"
    /\ ~warned

(***************************************************************************)
(* C16: when the speaker's custom voice names a file that does not exist,  *)
(* the run fails before any synthesis call is issued and nothing is        *)
(* retried.                                                                *)
(***************************************************************************)
MissingVoiceFileIsFatal ==
    custom_voice = "missing_file" =>
        /\ clip_calls = 0
        /\ clip_attempt = 0

(* the missing file's name has been sent as reference audio in 5 calls     *)
MissingVoiceFileRetried ==
    /\ custom_voice = "missing_file"
    /\ tts_kwargs.reference_audio = "missing_file"
    /\ clip_calls = AudioAttempts
    /\ pc = "raised_clip"

(***************************************************************************)
(* C19: for each backend identifier the backend is instantiated at most    *)
(* once and its model is loaded at most once in the life of the process,   *)
(* and every later request gets the cached instance.                       *)
(***************************************************************************)
InstantiatedOnce == \A n \in KnownModels : created[n] <= 1

LoadedOnce == \A n \in KnownModels : loads[n] <= 1

SameCachedInstance ==
    \A n \in KnownModels :
        /\ instances[n] # 0 => instances'[n] = instances[n]
        /\ (instances[n] # 0 /\ got'.model_name = n /\ requests' # requests)
              => got'.id = instances[n]

BackendLoadedOncePerIdentifier ==
    [](InstantiatedOnce /\ LoadedOnce) /\ [][SameCachedInstance]_vars

(* the factory does instantiate once and hand out the cached instance, and *)
(* the only second load is the one of load_tts                             *)
FactoryCachesInstances ==
    /\ [](InstantiatedOnce
          /\ \A n \in KnownModels :
                loads[n] <= (IF tts.model_name = n THEN 2 ELSE 1))
    /\ [][SameCachedInstance]_vars

(* load_tts has loaded the model of its backend twice                      *)
LoadedTwice ==
    /\ tts.model_name = provider
    /\ created[provider] = 1
    /\ loads[provider] = 2

(***************************************************************************)
(* C18: every stage only fills a field that was null or appends to a list  *)
(* field; no stage replaces a field that already held a value, the input   *)
(* field content and the configuration objects included.                   *)
(***************************************************************************)
FillsOrAppends ==
    /\ state'.content = state.content
    /\ state'.speaker_profile = state.speaker_profile
    /\ state.outline.some => state'.outline = state.outline
    /\ IsPrefix(state.transcript, state'.transcript)
    /\ IsPrefix(state.audio_clips, state'.audio_clips)
    /\ state.final_output_file_path.some =>
          state'.final_output_file_path = state.final_output_file_path

StagesOnlyFillOrAppend == [][FillsOrAppends]_vars

(* the content stage leaves every field but content alone                  *)
ContentStageWritesContentOnly ==
    [][\A f \in DOMAIN state \ {"content"} : state'[f] = state[f]]_vars

(* the content stage has replaced a str content by a model response        *)
ContentReplaced ==
    /\ pc = "content_transformed"
    /\ ~state.content.is_list
    /\ state.content.items[1].kind = "response"

(***************************************************************************)
(* C20: for an item shorter than 500 characters the QA call is issued and  *)
(* the item replaced only when the classifier answered "needed"; when it   *)
(* answered "not needed" the item passes through unchanged and exactly one *)
(* model call was made for it.                                             *)
(***************************************************************************)
CallsFor(i) == {k \in DOMAIN model_calls : model_calls[k].item = i}

JudgeAnswered(i, answer) ==
    \E k \in CallsFor(i) : model_calls[k].call = "judge" /\ model_calls[k].answer = answer

Elaborated(i) == \E k \in CallsFor(i) : model_calls[k].call = "qa"

ElaborationOnlyWhenNeeded ==
    \A i \in 0..(Len(model_calls) - 1) :
        /\ Elaborated(i) => JudgeAnswered(i, Need)
        /\ JudgeAnswered(i, NotNeed) =>
              /\ Cardinality(CallsFor(i)) = 1
              /\ i < Len(processed_items) => processed_items[i + 1].kind = "str"

(* the QA call is issued exactly when the two characters of "needed" occur *)
(* in the answer                                                           *)
ElaborationWhenAnswerContainsNeed ==
    \A i \in 0..(Len(model_calls) - 1) :
        Elaborated(i) <=> \E k \in CallsFor(i) :
                             /\ model_calls[k].call = "judge"
                             /\ Contains(model_calls[k].answer, Need)

(* an item the classifier answered "not needed" for was elaborated         *)
NotNeededButElaborated ==
    \E i \in 0..(Len(model_calls) - 1) :
        /\ JudgeAnswered(i, NotNeed)
        /\ Elaborated(i)
        /\ i < Len(processed_items)
        /\ processed_items[i + 1] = ResponseItem("qa", i)

(***************************************************************************)
(* C21: for each content item the preprocessor decides by the item's       *)
(* length alone: longer than 5000 characters gives exactly one summarize   *)
(* call and the item is replaced by the summary; 500 to 5000 characters    *)
(* gives no model call and the item is unchanged; only items shorter than  *)
(* 500 characters reach the classifier call.                               *)
(***************************************************************************)
(* len(item): the blanks around the item count *)
RawLen(x) == x.pad + x.len

JudgeCalled(i) == \E k \in CallsFor(i) : model_calls[k].call = "judge"

(* the decision taken for the str items processed so far, and for the item *)
(* of every judge call issued, follows the length measured by Length       *)
DecidedBy(Length(_)) ==
    /\ \A k \in 1..Len(processed_items) :
          LET x == content.items[k]
          IN  x.kind = "str" =>
                /\ Length(x) > SummaryThreshold =>
                      /\ Cardinality(CallsFor(k - 1)) = 1
                      /\ \A c \in CallsFor(k - 1) : model_calls[c].call = "summary"
                      /\ processed_items[k] = ResponseItem("summary", k - 1)
                /\ (Length(x) >= JudgeThreshold /\ Length(x) <= SummaryThreshold) =>
                      /\ CallsFor(k - 1) = {}
                      /\ processed_items[k] = x
    /\ \A c \in DOMAIN model_calls :
          model_calls[c].call = "judge" =>
              Length(content.items[model_calls[c].item + 1]) < JudgeThreshold

LenWithoutBlanks(x) == x.len

EachCallOnce ==
    \A j, k \in DOMAIN model_calls :
        (model_calls[j].item = model_calls[k].item /\ model_calls[j].call = model_calls[k].call)
            => j = k

FailedCallState ==
    pc = "raised_content" =>
        /\ state.content = content
        /\ model_calls # <<>>
        /\ model_calls[Len(model_calls)].item = item_i
        /\ \A k \in DOMAIN model_calls : model_calls[k].item <= item_i

(* nothing happens after the error has left the stage *)
NoStepAfterFailedCall == pc # "raised_content"

FailedCallPropagates ==
    /\ [](EachCallOnce /\ FailedCallState)
    /\ [][NoStepAfterFailedCall]_vars

(* the call for the second item of a list failed after the first item had  *)
(* been replaced by its summary                                            *)
FailedCallPropagatesWitness ==
    /\ pc = "raised_content"
    /\ content.is_list
    /\ item_i = 1
    /\ processed_items = <<ResponseItem("summary", 0)>>
    /\ state.content = content

(***************************************************************************)
(* C23: for a list input the preprocessor returns a list of the same       *)
(* length in the same order, in which position k holds either the original *)
(* item k or the model result for item k, and the decision taken for item  *)
(* k does not depend on any other item.                                    *)
(***************************************************************************)
(* position k of the processed items holds item k or a response to a call  *)
(* issued for item k                                                       *)
HoldsItemOrItsResult(k) ==
    \/ processed_items[k] = content.items[k]
    \/ /\ processed_items[k].kind = "response"
       /\ processed_items[k].item = k - 1
       /\ \E c \in CallsFor(k - 1) : model_calls[c].call = processed_items[k].call

AnswersFor(i) == {model_calls[c].answer : c \in CallsFor(i)}

(* equal items with equal answers of the model get the same result,        *)
(* whatever stands around them                                             *)
DecidedPerItem ==
    \A j, k \in 1..Len(processed_items) :
        (content.items[j] = content.items[k] /\ AnswersFor(j - 1) = AnswersFor(k - 1))
            => /\ processed_items[j].kind = processed_items[k].kind
               /\ processed_items[j].call = processed_items[k].call

ListProcessedItemByItem ==
    content.is_list =>
        /\ Len(processed_items) <= Len(content.items)
        /\ \A k \in 1..Len(processed_items) : HoldsItemOrItsResult(k)
        /\ DecidedPerItem
        /\ pc = "content_transformed" =>
              /\ state.content.is_list
              /\ state.content.items = processed_items
              /\ Len(state.content.items) = Len(content.items)

(* a list of two items was returned, the first item as it was and the      *)
(* second replaced by the answer of the QA call for it                     *)
ListProcessedItemByItemWitness ==
    /\ pc = "content_transformed"
    /\ content.is_list
    /\ Len(content.items) = 2
    /\ content.items[1].kind = "str"
    /\ content.items[1] # content.items[2]
    /\ state.content.items = <<content.items[1], ResponseItem("qa", 1)>>

(***************************************************************************)
(* C24: for a dialogue line carrying an emotion tag the synthesis call     *)
(* receives as its instructions option the description text that the       *)
(* EmotionConfig associates with that emotion name; a line without an      *)
(* emotion tag gets no instructions option.                                *)
(***************************************************************************)
(* the options of the synthesis call are prepared: the call is issued,     *)
(* awaits its retry, has succeeded or has failed for good                  *)
RequestPrepared == pc \in {"clip_calling", "clip_sleeping", "clip_done", "raised_clip"}

InstructionsAreDescription ==
    RequestPrepared =>
        tts_kwargs.instructions =
            IF emotion # None THEN get_emotion(emotion).description ELSE None

(* what the call receives for a line with an emotion is the emotion's name *)
InstructionsAreEmotionName ==
    /\ pc = "clip_done"
    /\ emotion = "Happy"
    /\ tts_kwargs.instructions = "Happy"

(***************************************************************************)
(* C25: when the backend's capability reports that instructions, custom    *)
(* voice or the requested dialect is unsupported, the scheduler emits a    *)
(* warning, omits that option from the synthesis call and still generates  *)
(* the clip. Stated for the omission: an option the capability reports as  *)
(* unsupported is not among the options of the call.                       *)
(***************************************************************************)
UnsupportedOptionsOmitted ==
    (RequestPrepared /\ backend \in CapabilityKnown) =>
        /\ ~Capability(backend).supports_instructions => tts_kwargs.instructions = None
        /\ ~Capability(backend).supports_custom_voice => tts_kwargs.reference_audio = None
        /\ dialect \notin Capability(backend).supported_dialects => tts_kwargs.dialect = None

(* a clip was generated by a backend without instructions, custom voices   *)
(* and the dialect, with the three options in its call                     *)
UnsupportedOptionsSent ==
    /\ pc = "clip_done"
    /\ backend = "kokoro"
    /\ tts_kwargs.instructions # None
    /\ tts_kwargs.reference_audio # None
    /\ tts_kwargs.dialect = "hakka"

(***************************************************************************)
(* C26: for a dialogue line carrying a speed tag the synthesis call        *)
(* receives the speed multiplier that the SpeedConfig maps that tag to.    *)
(***************************************************************************)
SpeedIsMultiplier ==
    (RequestPrepared /\ speed # None) =>
        /\ "speed" \in DOMAIN tts_kwargs
        /\ tts_kwargs["speed"] = get_speed_name_value(speed)

(* a clip was generated for a fast line by a call without a speed option   *)
SpeedNotSent ==
    /\ pc = "clip_done"
    /\ speed = "fast"
    /\ "speed" \notin DOMAIN tts_kwargs

(***************************************************************************)
(* C27: the scheduler pauses exactly once between each pair of consecutive *)
(* batches and never after the last batch: a run with B batches performs   *)
(* B-1 inter-batch pauses, each one after all calls of the preceding batch *)
(* have finished and before any call of the next batch starts.             *)
(***************************************************************************)
(* the pauses that are over are one fewer than the batches started; while  *)
(* the scheduler pauses no call is in flight, every line of the batches so *)
(* far is done and lines are left for a next batch                         *)
PausesCounted ==
    /\ batches = <<>> => pauses = 0
    /\ batches # <<>> => pauses = Len(batches) - 1
    /\ pc = "audio_sleep" =>
          /\ InFlight = {}
          /\ \A i \in Lines : i < batch_end => task[i].status = "done"
          /\ \A i \in Lines : i >= batch_end => task[i].status = "none"
          /\ batch_end < total_segments

(* a pause ends by starting the next batch, and only a pause starts a      *)
(* batch after the first                                                   *)
PauseStartsNextBatch ==
    /\ pauses' # pauses =>
          /\ pc = "audio_sleep"
          /\ pauses' = pauses + 1
          /\ Len(batches') = Len(batches) + 1
    /\ (batches # <<>> /\ batches' # batches) => pauses' = pauses + 1

OnePauseBetweenBatches == []PausesCounted /\ [][PauseStartsNextBatch]_vars

(* a run of three batches has returned after two pauses                    *)
OnePauseBetweenBatchesWitness ==
    /\ AudioReturned
    /\ Len(batches) = 3
    /\ pauses = 2
    /\ Len(state.audio_clips) = total_segments

(***************************************************************************)
(* C28: when generate_all_audio_node raises the fatal error for a line     *)
(* that exhausted its retries, no synthesis call of that run is still in   *)
(* flight and none is attempted afterwards: every sibling line of the      *)
(* failing batch has finished or been stopped by then.                     *)
(***************************************************************************)
SiblingsStopped ==
    pc = "raised_audio" => \A i \in Lines : task[i].status \notin {"calling", "sleeping"}

NoCallAfterError == pc = "raised_audio" => task' = task

NoCallInFlightAtFatalError == []SiblingsStopped /\ [][NoCallAfterError]_vars

(* the error has left the scheduler while the call of a sibling line is in *)
(* flight                                                                  *)
SiblingInFlightAfterError ==
    /\ pc = "raised_audio"
    /\ \E i, j \in Lines :
          /\ task[i].status = "failed"
          /\ task[j].status = "calling"

(***************************************************************************)
(* C29: for every integer value of the configured batch size, 0 and the    *)
(* negative values included, generate_all_audio_node either synthesizes    *)
(* every transcript line or fails with an error; it never returns with     *)
(* fewer clip paths than transcript lines.                                 *)
(***************************************************************************)
NeverFewerClipsThanLines ==
    AudioReturned => Len(state.audio_clips) >= total_segments

(* the node has returned no clip path for a transcript that has lines      *)
ReturnedWithoutClips ==
    /\ AudioReturned
    /\ batch_size < 0
    /\ total_segments > 0
    /\ state.audio_clips = <<>>

(***************************************************************************)
(* C30: if the Transcript Generator fails fatally on segment N, it returns *)
(* no transcript update: the dialogue turns already accepted for segments  *)
(* 1..N-1 are not written to the pipeline state, whose transcript field is *)
(* left unchanged.                                                         *)
(***************************************************************************)
(* while the generator runs and once it has failed, the transcript of the  *)
(* state is the empty one the run started with                             *)
TranscriptNotWritten ==
    pc \in {"generate_transcript", "raised_transcript"} => state.transcript = <<>>

(* the step that raises writes nothing to the state *)
FatalStepLeavesState == pc' = "raised_transcript" => state' = state

FatalFailureReturnsNoTranscript ==
    []TranscriptNotWritten /\ [][FatalStepLeavesState]_vars

(* the generator has failed on the second segment with the turns of the    *)
(* first one accepted                                                      *)
FatalFailureReturnsNoTranscriptWitness ==
    /\ pc = "raised_transcript"
    /\ seg_i = 1
    /\ transcript # <<>>
    /\ accepted # <<>>
    /\ state.transcript = <<>>

====
